---- MODULE Spec2Model ----
(***************************************************************************)
(* Model of quiz.py: the parsing of a generated quiz text                  *)
(* (generate_quiz_question), the asked-questions store                     *)
(* (load_questions_db, save_question_to_db) and the production cycle       *)
(* (send_quiz).                                                            *)
(*                                                                         *)
(* Text is a sequence of tokens.  White space, the slash, the closing      *)
(* parenthesis and the capital letters are one token per character; a      *)
(* marker ("Correct:", the Hindi marker), a Hindi letter name and a word   *)
(* of ordinary text are one token each.  Every string operation of the     *)
(* source is an operator on such sequences.                                *)
(***************************************************************************)
EXTENDS Integers, Sequences, FiniteSets, TLC

VARIABLES
    question_text,  \* the generated text handed to the parser
    parsed,         \* what the parser returned for it
    file,           \* asked_questions.json
    clock,          \* datetime.now(), in ticks
    polls,          \* the send_poll calls made so far, oldest first
    call,           \* the last operation run to completion and what it returned
    inserted,       \* history: the records whose insertion returned True, in order
    proc            \* concurrent callers of save_question_to_db: their positions

vars == <<question_text, parsed, file, clock, polls, call, inserted, proc>>

----------------------------------------------------------------------------
(* Tokens *)

NL == "\n"
SP == " "
SLASH == "/"
RPAREN == ")"
\* "Correct:"
CorrectMarker == "Correct:"
\* the Hindi marker, "sahi uttar:" (correct answer:)
HindiMarker == "sahi-uttar:"

Letters == <<"A", "B", "C", "D">>

\* hindi_to_eng: the Hindi names of the four letters
HindiNames == <<"e-hi", "bee-hi", "see-hi", "dee-hi">>

----------------------------------------------------------------------------
(* Python's string operations, on token sequences *)

IsSpace(t) == t \in {SP, NL}

Drop(s, n) == SubSeq(s, n + 1, Len(s))

\* s.startswith(p)
startswith(s, p) == Len(s) >= Len(p) /\ SubSeq(s, 1, Len(p)) = p

\* s.find(sub) + 1: the position of the first occurrence of sub, 0 if none
find(s, sub) ==
    LET hits == {i \in 1..(Len(s) - Len(sub) + 1) : SubSeq(s, i, i + Len(sub) - 1) = sub}
    IN  IF hits = {} THEN 0 ELSE CHOOSE i \in hits : \A j \in hits : i <= j

\* sub in s
contains(s, sub) == find(s, sub) # 0

\* s.strip()
strip(s) ==
    LET keep == {i \in 1..Len(s) : ~IsSpace(s[i])}
    IN  IF keep = {} THEN <<>>
        ELSE LET lo == CHOOSE i \in keep : \A j \in keep : i <= j
                 hi == CHOOSE i \in keep : \A j \in keep : i >= j
             IN  SubSeq(s, lo, hi)

\* s.split(sep): left to right, occurrences do not overlap
RECURSIVE split(_, _)
split(s, sep) ==
    LET i == find(s, sep)
    IN  IF i = 0 THEN <<s>>
        ELSE <<SubSeq(s, 1, i - 1)>> \o split(Drop(s, i - 1 + Len(sep)), sep)

\* s.split(sep, 1)[1], for a sep that occurs in s
after(s, sep) == Drop(s, find(s, sep) - 1 + Len(sep))

\* s.split(sep)[0]
before(s, sep) == split(s, sep)[1]

\* '\n'.join(lines)
RECURSIVE join(_)
join(lines) ==
    IF Len(lines) = 0 THEN <<>>
    ELSE IF Len(lines) = 1 THEN lines[1]
    ELSE lines[1] \o <<NL>> \o join(Tail(lines))

----------------------------------------------------------------------------
(* generate_quiz_question, from the response text on *)

\* return None, None, None, with the error that was logged
None(error) ==
    [ok |-> FALSE, error |-> error, question |-> <<>>, options |-> <<>>,
     correct_index |-> -1]

\* line.startswith("A) ") ... line.startswith("D) ")
HasOptionMarker(line) ==
    \E i \in 1..4 : startswith(line, <<Letters[i], RPAREN, SP>>)

\* the loop over option_lines: the option texts kept, in order
RECURSIVE CollectOptions(_)
CollectOptions(option_lines) ==
    IF Len(option_lines) = 0 THEN <<>>
    ELSE LET line == Head(option_lines)
             option_text == strip(Drop(line, 3))
             rest == CollectOptions(Tail(option_lines))
         IN  IF HasOptionMarker(line) /\ option_text # <<>> /\ contains(option_text, <<SLASH>>)
             THEN <<option_text>> \o rest
             ELSE rest

IsAnswerLine(line) ==
    startswith(line, <<CorrectMarker>>) \/ startswith(line, <<HindiMarker>>)

\* for line in reversed(option_lines): the last line that starts with a marker
FindCorrectLine(option_lines, fallback) ==
    LET hits == {i \in 1..Len(option_lines) : IsAnswerLine(option_lines[i])}
    IN  IF hits = {} THEN fallback
        ELSE option_lines[CHOOSE i \in hits : \A j \in hits : i >= j]

\* the two "if ... in correct_answer" cuts
StripNoise(correct_answer) ==
    LET a == IF contains(correct_answer, <<SLASH>>)
             THEN strip(before(correct_answer, <<SLASH>>)) ELSE correct_answer
    IN  IF contains(a, <<RPAREN>>) THEN strip(before(a, <<RPAREN>>)) ELSE a

\* hindi_to_eng
HindiToEng(correct_answer) ==
    IF \E i \in 1..4 : correct_answer = <<HindiNames[i]>>
    THEN <<Letters[CHOOSE i \in 1..4 : correct_answer = <<HindiNames[i]>>]>>
    ELSE correct_answer

\* ord(correct_answer) - ord('A')
LetterIndex(correct_answer) ==
    (CHOOSE i \in 1..4 : correct_answer = <<Letters[i]>>) - 1

Parse(text) ==
    LET parts == split(text, <<NL, NL>>)
    IN  IF Len(parts) < 2 THEN None("MalformedStructure")
        ELSE
        LET question_lines == split(strip(parts[1]), <<NL>>)
        IN  IF Len(question_lines) # 2 THEN None("MalformedQuestion")
            ELSE
            LET question == join(question_lines)
                option_lines == split(strip(parts[2]), <<NL>>)
                options == CollectOptions(option_lines)
            IN  IF Len(options) # 4 THEN None("InvalidOptionCount")
                ELSE
                LET fallback == IF Len(parts) > 2 THEN strip(parts[Len(parts)])
                                ELSE strip(option_lines[Len(option_lines)])
                    correct_line == FindCorrectLine(option_lines, fallback)
                IN  IF ~contains(correct_line, <<CorrectMarker>>)
                       /\ ~contains(correct_line, <<HindiMarker>>)
                    THEN None("MissingAnswerKey")
                    ELSE
                    LET marker == IF contains(correct_line, <<CorrectMarker>>)
                                  THEN <<CorrectMarker>> ELSE <<HindiMarker>>
                        correct_answer ==
                            HindiToEng(StripNoise(strip(after(correct_line, marker))))
                    IN  IF ~\E i \in 1..4 : correct_answer = <<Letters[i]>>
                        THEN None("InvalidAnswerLetter")
                        ELSE [ok |-> TRUE, error |-> "", question |-> question,
                              options |-> options,
                              correct_index |-> LetterIndex(correct_answer)]

\* response.choices[0].message.content.strip(), then the parsing
ParseResponse(content) == Parse(strip(content))

----------------------------------------------------------------------------
(* The generated texts the parser is run on *)

\* how many tokens of noise may follow the letter of an answer line
MaxNoise == 2

Markers == {CorrectMarker, HindiMarker}

\* the primary- and secondary-language wording of the i-th option
Primary == <<"x", "y", "z", "w">>
Secondary == <<"xh", "yh", "zh", "wh">>

GoodText(i) == <<Primary[i], SP, SLASH, SP, Secondary[i]>>

\* "<Letter>) <text>"
OptionLine(letter, text) == <<Letters[letter], RPAREN, SP>> \o text

QuestionBlock(q) == <<q, NL, q \o "-hi">>

\* the four option lines, the k-th line marked letter[k] and holding text[k]
OptionsBlock(letter, text) ==
    join([k \in 1..4 |-> OptionLine(letter[k], text[k])])

ABCD == [k \in 1..4 |-> k]
GoodTexts == [k \in 1..4 |-> GoodText(k)]

\* what may follow the letter: ") <echoed option>" or "/ <secondary text>"
NoiseTokens == {"x", SP, SLASH, RPAREN, CorrectMarker}
NoiseBodies == UNION {[1..n -> NoiseTokens] : n \in 1..MaxNoise}
Noises ==
    {lead \o body : lead \in {<<RPAREN, SP>>, <<SP, SLASH, SP>>, <<SLASH, SP>>},
                    body \in NoiseBodies}

\* an input of the parser: the text, whether it follows the documented
\* template, and the letter (1..4) its answer line states (0: none)
Case(text, template, stated) ==
    [text |-> text, template |-> template, stated |-> stated]

Document(q, options, tail) == QuestionBlock(q) \o <<NL, NL>> \o options \o tail

\* the documented template: two question lines, a blank line, the four option
\* lines A..D, a blank line, one answer line
\* the forms of the answer value that state the i-th letter
AnswerValues(i) ==
    {<<Letters[i]>>, <<HindiNames[i]>>}
    \cup {<<name>> \o noise : name \in {Letters[i], HindiNames[i]}, noise \in Noises}

TemplateCases ==
    UNION {{Case(Document("Q1", OptionsBlock(ABCD, GoodTexts), <<NL, NL, m, SP>> \o value),
                 TRUE, i) :
                m \in Markers, value \in AnswerValues(i)} : i \in 1..4}

\* the option lines marked with any four letters
LetterCases ==
    {Case(Document("Q1", OptionsBlock(letter, GoodTexts),
                   <<NL, NL, CorrectMarker, SP, Letters[i]>>), FALSE, i) :
        letter \in [1..4 -> 1..4], i \in 1..4}

\* one option line with another text, and blocks of three and five lines
OtherTexts ==
    {<<"x", SLASH, "xh">>, <<"x">>, <<>>, <<SLASH, SP, "xh">>, <<"x", SP, SLASH>>,
     <<SLASH>>, <<"x", SP, SP, SLASH, SP, "xh">>}
TextCases ==
    {Case(Document("Q1", OptionsBlock(ABCD, [GoodTexts EXCEPT ![k] = t]),
                   <<NL, NL, CorrectMarker, SP, "B">>), FALSE, 2) :
        k \in 1..4, t \in OtherTexts}
    \cup
    {Case(Document("Q1", OptionsBlock(ABCD, GoodTexts) \o <<NL>> \o OptionLine(k, t),
                   <<NL, NL, CorrectMarker, SP, "B">>), FALSE, 2) :
        k \in 1..4, t \in OtherTexts \cup {GoodText(1)}}
    \cup
    {Case(Document("Q1", join([k \in 1..3 |-> OptionLine(k, GoodText(k))]),
                   <<NL, NL, CorrectMarker, SP, "B">>), FALSE, 2)}

\* where the answer key stands, if anywhere
Tails ==
    {<<>>, <<NL, NL, "note">>, <<NL, "note">>}
    \cup
    {sep \o lead \o <<m, SP, Letters[i]>> \o trail :
        sep \in {<<NL, NL>>, <<NL>>, <<SP>>, <<NL, SP>>, <<NL, NL, SP>>},
        lead \in {<<>>, <<"The", SP>>},
        m \in Markers, i \in {2, 5 - 2},
        trail \in {<<>>, <<NL, NL, "note">>, <<NL, "note">>}}
    \cup
    {<<NL, m, SP, "A", NL, NL, CorrectMarker, SP, "C">> : m \in Markers}
    \cup
    {<<NL, NL, CorrectMarker, SP>> \o v : v \in {<<"E">>, <<"a">>, <<>>, <<"A", "B">>}}
KeyCases ==
    {Case(Document("Q1", OptionsBlock(ABCD, GoodTexts), tail), FALSE, 0) : tail \in Tails}

\* the question block and the separators gone wrong
StructureCases ==
    {Case(q \o sep \o OptionsBlock(ABCD, GoodTexts) \o <<NL, NL, CorrectMarker, SP, "D">>,
          FALSE, 4) :
        q \in {<<"Q1">>, <<"Q1", NL, "Q1-hi", NL, "Q1-x">>, <<>>, <<SP>> \o QuestionBlock("Q1"),
               QuestionBlock("Q1") \o <<SP>>},
        sep \in {<<NL, NL>>, <<NL>>, <<NL, NL, NL>>}}
    \cup
    {Case(t, FALSE, 0) : t \in {<<>>, <<NL, NL>>, <<"Q1">>, QuestionBlock("Q1")}}

ParseCases == TemplateCases \cup LetterCases \cup TextCases \cup KeyCases \cup StructureCases

----------------------------------------------------------------------------
(* The asked-questions store *)

\* how many operations a run makes
MaxCalls == 3

\* {"questions": []}
EmptyDb == [keys |-> {"questions"}, questions |-> <<>>]

Absent == [state |-> "absent", keys |-> {}, questions |-> <<>>]
\* a file that json.load rejects
InvalidJson == [state |-> "invalid", keys |-> {}, questions |-> <<>>]
\* a file holding the JSON document db
JsonFile(db) == [state |-> "json", keys |-> db.keys, questions |-> db.questions]
\* "{}": valid JSON without the "questions" key
NoQuestionsKey == JsonFile([keys |-> {}, questions |-> <<>>])

\* a load that never reads the file
load_ignoring_file(f) == EmptyDb

\* load_questions_db(): the document read, the empty store for an absent file
\* and for one that does not decode
load_questions_db(f) ==
    IF f.state = "json" THEN [keys |-> f.keys, questions |-> f.questions]
    ELSE EmptyDb

\* hashlib.md5(question.encode('utf-8')).hexdigest(): one digest per text
md5(question) == <<"md5">> \o question

NewRecord(question, now) ==
    [hash |-> md5(question), question |-> question, date_added |-> now]

\* what save_question_to_db returns ("True", "False") or that it raised, and
\* the file it leaves
Saved(ret, f) == [ret |-> ret, file |-> f]

\* for q in db["questions"]: if q["hash"] == question_hash
AskedBefore(db, question) ==
    \E i \in 1..Len(db.questions) : db.questions[i].hash = md5(question)

\* an insertion at the head of the list
InsertQuestionFirst(db, question, now) ==
    [db EXCEPT !.questions = <<NewRecord(question, now)>> \o @]

\* db["questions"].append({...})
AppendQuestion(db, question, now) ==
    [db EXCEPT !.questions = Append(@, NewRecord(question, now))]

\* a save without the loop that looks for the hash
save_without_check(f, question, now, write_ok) ==
    IF "questions" \notin load_questions_db(f).keys THEN Saved("raised", f)
    ELSE IF ~write_ok THEN Saved("raised", f)
    ELSE Saved("True", JsonFile(AppendQuestion(load_questions_db(f), question, now)))

\* save_question_to_db(question), run without interruption at time now;
\* write_ok: whether the file can be opened for writing
save_question_to_db(f, question, now, write_ok) ==
    IF "questions" \notin load_questions_db(f).keys THEN Saved("raised", f)
    ELSE IF AskedBefore(load_questions_db(f), question) THEN Saved("False", f)
    ELSE IF ~write_ok THEN Saved("raised", f)
    ELSE Saved("True", JsonFile(AppendQuestion(load_questions_db(f), question, now)))

----------------------------------------------------------------------------
(* The production cycle *)

\* what the generation request gave: a text, or an exception
Response(raised, content) == [raised |-> raised, content |-> content]

\* generate_quiz_question(): any exception, also the one of db["questions"]
\* on a document without that key, ends in return None, None, None
generate_quiz_question(f, response) ==
    IF "questions" \notin load_questions_db(f).keys THEN None("Exception")
    ELSE IF response.raised THEN None("Exception")
    ELSE ParseResponse(response.content)

\* the arguments of bot.send_poll
Poll(q) ==
    [question |-> q.question, options |-> q.options,
     correct_option_id |-> q.correct_index,
     explanation |-> <<"Correct answer:", SP, Letters[q.correct_index + 1]>>]

\* a cycle without the "if not all([...]): return"
send_quiz_unguarded(f, sent, response, now, write_ok) ==
    LET q == generate_quiz_question(f, response)
        saved == save_question_to_db(f, q.question, now, write_ok)
    IN  IF saved.ret = "raised"
        THEN [file |-> saved.file, polls |-> sent, parsed |-> q, is_new |-> "raised"]
        ELSE [file |-> saved.file,
              polls |-> Append(sent, [question |-> q.question, options |-> q.options,
                                      correct_option_id |-> q.correct_index,
                                      explanation |-> <<>>]),
              parsed |-> q, is_new |-> saved.ret]

\* a cycle that returns when the question was asked before
send_quiz_skipping_asked(f, sent, response, now, write_ok) ==
    LET q == generate_quiz_question(f, response)
    IN  IF ~(q.question # <<>> /\ q.options # <<>> /\ q.correct_index # -1)
        THEN [file |-> f, polls |-> sent, parsed |-> q, is_new |-> "not called"]
        ELSE
        LET saved == save_question_to_db(f, q.question, now, write_ok)
        IN  IF saved.ret = "True"
            THEN [file |-> saved.file, polls |-> Append(sent, Poll(q)), parsed |-> q,
                  is_new |-> saved.ret]
            ELSE [file |-> saved.file, polls |-> sent, parsed |-> q, is_new |-> saved.ret]

\* send_quiz(bot): the file and the polls it leaves, with what
\* generate_quiz_question and save_question_to_db returned on the way
send_quiz(f, sent, response, now, write_ok) ==
    LET q == generate_quiz_question(f, response)
    IN  IF ~(q.question # <<>> /\ q.options # <<>> /\ q.correct_index # -1)
        THEN [file |-> f, polls |-> sent, parsed |-> q, is_new |-> "not called"]
        ELSE
        LET saved == save_question_to_db(f, q.question, now, write_ok)
        IN  IF saved.ret = "raised"
            THEN [file |-> saved.file, polls |-> sent, parsed |-> q, is_new |-> "raised"]
            ELSE [file |-> saved.file, polls |-> Append(sent, Poll(q)), parsed |-> q,
                  is_new |-> saved.ret]

\* the texts the generation step returns
Answer(i) == <<NL, NL, CorrectMarker, SP, Letters[i]>>
Contents ==
    {Document("Q1", OptionsBlock(ABCD, GoodTexts), Answer(3)),
     Document("Q1", OptionsBlock(ABCD, GoodTexts), <<NL, NL, HindiMarker, SP, HindiNames[1]>>),
     Document("Q2", OptionsBlock(ABCD, GoodTexts), Answer(2)),
     Document("Q2", OptionsBlock(ABCD, GoodTexts), <<>>),
     Document("Q3", OptionsBlock(ABCD, [GoodTexts EXCEPT ![2] = <<"y">>]), Answer(1)),
     QuestionBlock("Q3") \o <<NL>> \o OptionsBlock(ABCD, GoodTexts) \o Answer(1),
     <<"Q3">> \o <<NL, NL>> \o OptionsBlock(ABCD, GoodTexts) \o Answer(4),
     Document("Q3", OptionsBlock(ABCD, GoodTexts), <<NL, NL, CorrectMarker, SP, "E">>)}
Responses ==
    {Response(FALSE, c) : c \in Contents} \cup {Response(TRUE, <<>>)}

\* the prompts save_question_to_db is called with
Prompts == {QuestionBlock(q) : q \in {"Q1", "Q2", "Q3"}}

NotParsed == None("not parsed")
NoCall == [op |-> "none", question |-> <<>>, ret |-> "", write_ok |-> TRUE, db |-> EmptyDb]

Init ==
    /\ file \in {Absent, InvalidJson, NoQuestionsKey, JsonFile(EmptyDb)}
    /\ clock = 0
    /\ polls = <<>>
    /\ inserted = <<>>
    /\ call = NoCall
    /\ question_text = <<>>
    /\ parsed = NotParsed
    /\ proc = <<>>

\* the history of the insertions that returned True
Insertions(ret, question, now) ==
    IF ret = "True" THEN Append(inserted, NewRecord(question, now)) ELSE inserted

\* one production cycle, from the generation request to the poll
SendQuiz(response, write_ok) ==
    /\ clock < MaxCalls
    /\ \E r \in {send_quiz(file, polls, response, clock, write_ok)} :
           /\ file' = r.file
           /\ polls' = r.polls
           /\ parsed' = r.parsed
           /\ question_text' = response.content
           /\ call' = [op |-> "send_quiz", question |-> r.parsed.question,
                       ret |-> r.is_new, write_ok |-> write_ok, db |-> EmptyDb]
           /\ inserted' = Insertions(r.is_new, r.parsed.question, clock)
    /\ clock' = clock + 1
    /\ UNCHANGED proc

\* one call of save_question_to_db(question)
SaveQuestionToDb(question, write_ok) ==
    /\ clock < MaxCalls
    /\ \E r \in {save_question_to_db(file, question, clock, write_ok)} :
           /\ file' = r.file
           /\ call' = [op |-> "save_question_to_db", question |-> question,
                       ret |-> r.ret, write_ok |-> write_ok, db |-> EmptyDb]
           /\ inserted' = Insertions(r.ret, question, clock)
    /\ clock' = clock + 1
    /\ UNCHANGED <<question_text, parsed, polls, proc>>

\* one call of load_questions_db()
LoadQuestionsDb ==
    /\ clock < MaxCalls
    /\ call' = [op |-> "load_questions_db", question |-> <<>>, ret |-> "returned",
                write_ok |-> TRUE, db |-> load_questions_db(file)]
    /\ clock' = clock + 1
    /\ UNCHANGED <<question_text, parsed, file, polls, inserted, proc>>

Next ==
    \/ \E response \in Responses, write_ok \in BOOLEAN : SendQuiz(response, write_ok)
    \/ \E question \in Prompts, write_ok \in BOOLEAN : SaveQuestionToDb(question, write_ok)
    \/ LoadQuestionsDb

Spec == Init /\ [][Next]_vars

----------------------------------------------------------------------------
(* Two callers of save_question_to_db at once: two copies of the script on  *)
(* one asked_questions.json.  A call is three steps: the load with the      *)
(* check and the append in memory, open(..., 'w'), which empties the file,  *)
(* and json.dump.                                                           *)

Procs == {1, 2}

Caller(pc, question, db, ret, loaded_at, opened_at, done_at) ==
    [pc |-> pc, question |-> question, db |-> db, ret |-> ret,
     loaded_at |-> loaded_at, opened_at |-> opened_at, done_at |-> done_at]

\* a store that holds one question asked earlier
OneAsked == JsonFile(AppendQuestion(EmptyDb, QuestionBlock("Q3"), 0))

InitConc ==
    /\ file \in {Absent, InvalidJson, NoQuestionsKey, JsonFile(EmptyDb), OneAsked}
    /\ inserted = load_questions_db(file).questions
    /\ clock = 1
    /\ proc \in [Procs -> {Caller("called", q, EmptyDb, "", 0, 0, 0) : q \in Prompts}]
    /\ polls = <<>>
    /\ call = NoCall
    /\ question_text = <<>>
    /\ parsed = NotParsed

\* lines 56 to 72: db = load_questions_db(), the check, the append
SaveLoad(p) ==
    /\ proc[p].pc = "called"
    /\ \E db \in {load_questions_db(file)} :
        IF "questions" \notin db.keys
        THEN proc' = [proc EXCEPT ![p] =
                        Caller("done", @.question, db, "raised", clock, 0, clock)]
        ELSE IF AskedBefore(db, proc[p].question)
        THEN proc' = [proc EXCEPT ![p] =
                        Caller("done", @.question, db, "False", clock, 0, clock)]
        ELSE proc' = [proc EXCEPT ![p] =
                        Caller("appended", @.question,
                               AppendQuestion(db, @.question, clock), "", clock, 0, 0)]
    /\ clock' = clock + 1
    /\ UNCHANGED <<question_text, parsed, file, polls, call, inserted>>

\* line 75: open(QUESTIONS_DB_PATH, 'w') leaves an empty file
SaveOpen(p) ==
    /\ proc[p].pc = "appended"
    /\ file' = InvalidJson
    /\ proc' = [proc EXCEPT ![p].pc = "opened", ![p].opened_at = clock]
    /\ clock' = clock + 1
    /\ UNCHANGED <<question_text, parsed, polls, call, inserted>>

\* lines 76 to 79: json.dump(db, f), return True
SaveDump(p) ==
    /\ proc[p].pc = "opened"
    /\ file' = JsonFile(proc[p].db)
    /\ proc' = [proc EXCEPT ![p].pc = "done", ![p].ret = "True", ![p].done_at = clock]
    /\ clock' = clock + 1
    /\ UNCHANGED <<question_text, parsed, polls, call, inserted>>

NextConc == \E p \in Procs : SaveLoad(p) \/ SaveOpen(p) \/ SaveDump(p)

SpecConc == InitConc /\ [][NextConc]_vars

----------------------------------------------------------------------------
(* The parser run on one text *)


InitStore ==
    /\ file = Absent
    /\ clock = 0
    /\ polls = <<>>
    /\ inserted = <<>>
    /\ proc = <<>>

InitParse ==
    /\ \E c \in ParseCases :
        /\ question_text = c.text
        /\ call = [op |-> "case", template |-> c.template, stated |-> c.stated]
    /\ parsed = NotParsed
    /\ InitStore

ParseText ==
    /\ parsed = NotParsed
    /\ parsed' = ParseResponse(question_text)
    /\ UNCHANGED <<question_text, file, clock, polls, call, inserted, proc>>

NextParse == ParseText

SpecParse == InitParse /\ [][NextParse]_vars

----------------------------------------------------------------------------
(* Properties *)

\* a step that is one production cycle
CycleStep == call'.op = "send_quiz" /\ clock' # clock

\* a step in which save_question_to_db was called, alone or in a cycle
SaveStep ==
    /\ clock' # clock
    /\ \/ call'.op = "save_question_to_db"
       \/ call'.op = "send_quiz" /\ call'.ret # "not called"

\* the file holds a store document
ValidStore(f) == f.state = "json" /\ "questions" \in f.keys

\* C1: a production cycle whose generated text does not parse writes nothing
\* to the store and sends no poll.
C1_FailedParseWritesNothing ==
    [][(CycleStep /\ ~ParseResponse(question_text').ok)
        => (file' = file /\ polls' = polls)]_vars

\* a cycle has just failed on the option count, after one that sent a poll
C1_Witness ==
    /\ call.op = "send_quiz"
    /\ parsed.error = "InvalidOptionCount"
    /\ Len(polls) = 1
    /\ Len(file.questions) = 1

OptionLinesOf(text) ==
    split(strip(split(strip(text), <<NL, NL>>)[2]), <<NL>>)

\* C2: the i-th option of a question the parser returns is the text of a line
\* marked with the i-th letter (a block whose four lines are not marked A, B,
\* C, D in this order is rejected).
C2_OptionsCarryTheirLetters ==
    parsed.ok =>
        \A i \in 1..4 :
            \E k \in 1..Len(OptionLinesOf(question_text)) :
                /\ startswith(OptionLinesOf(question_text)[k], <<Letters[i], RPAREN, SP>>)
                /\ parsed.options[i] = strip(Drop(OptionLinesOf(question_text)[k], 3))

\* C3: a text that follows the documented template parses to a question with
\* four options and the index of the letter its answer line states.
C3_TemplateParses ==
    (parsed # NotParsed /\ call.template) =>
        /\ parsed.ok
        /\ Len(parsed.options) = 4
        /\ parsed.correct_index = call.stated - 1

\* C4: a text none of whose lines begins with an answer-key marker (white
\* space before it aside) never parses to a question.
C4_NoMarkerLineNoQuestion ==
    (\A k \in 1..Len(split(question_text, <<NL>>)) :
        ~IsAnswerLine(strip(split(question_text, <<NL>>)[k])))
    => ~parsed.ok

\* C5: load_questions_db returns the empty store for a file that is absent
\* or holds no store document, and a save_question_to_db that can write the
\* file does not raise.
C5_LoadDegradesToEmpty ==
    /\ (call.op = "load_questions_db" /\ ~ValidStore(file)) => call.db = EmptyDb
    /\ (call.op = "save_question_to_db" /\ call.write_ok) => call.ret # "raised"

\* C6: once save_question_to_db has returned True for a question, every later
\* call with that question returns False and leaves the file as it was.
C6_RecordIdempotent ==
    [][(SaveStep /\ \E i \in 1..Len(inserted) : inserted[i].question = call'.question)
        => (call'.ret = "False" /\ file' = file)]_vars

\* a repeated question has just been refused, the two records unchanged
C6_Witness ==
    /\ call.op = "save_question_to_db"
    /\ call.ret = "False"
    /\ Len(file.questions) = 2
    /\ file.questions[1].question = call.question

\* C7: the store holds no hash twice, and its records are those of the
\* insertions that returned True, in the order they were made, each as it
\* was inserted.
C7_UniqueInInsertionOrder ==
    /\ ValidStore(file) => file.questions = inserted
    /\ ~ValidStore(file) => inserted = <<>>
    /\ \A i, j \in 1..Len(file.questions) :
        i # j => file.questions[i].hash # file.questions[j].hash

\* three questions have been inserted, one after the other
C7_Witness ==
    /\ Len(file.questions) = 3
    /\ file.questions[1].date_added < file.questions[3].date_added

\* C8: a cycle whose text parses to a question the store already holds still
\* sends the poll of that question: its four options and its correct index.
C8_AskedBeforeStillSent ==
    [][(/\ CycleStep
        /\ ValidStore(file)
        /\ ParseResponse(question_text').ok
        /\ \E i \in 1..Len(file.questions) :
            file.questions[i].hash = md5(ParseResponse(question_text').question))
        => /\ call'.ret = "False"
           /\ Len(polls') = Len(polls) + 1
           /\ SubSeq(polls', 1, Len(polls)) = polls
           /\ polls'[Len(polls')].question = ParseResponse(question_text').question
           /\ polls'[Len(polls')].options = ParseResponse(question_text').options
           /\ Len(polls'[Len(polls')].options) = 4
           /\ polls'[Len(polls')].correct_option_id
                = ParseResponse(question_text').correct_index]_vars

\* a cycle has just sent the question of the first poll again
C8_Witness ==
    /\ call.op = "send_quiz"
    /\ call.ret = "False"
    /\ Len(polls) = 2
    /\ polls[2].question = polls[1].question
    /\ Len(file.questions) = 1

\* C9: every option of a question the parser returns is non-empty and holds
\* the delimiter " / ".
C9_OptionsHoldDelimiter ==
    parsed.ok =>
        \A i \in 1..Len(parsed.options) :
            /\ parsed.options[i] # <<>>
            /\ contains(parsed.options[i], <<SP, SLASH, SP>>)

BothDone == \A p \in Procs : proc[p].pc = "done"

\* the two callers hold different questions, neither in the store at the
\* start, and the store could be read
DistinctNew ==
    /\ proc[1].question # proc[2].question
    /\ \A p \in Procs : \A i \in 1..Len(inserted) :
        inserted[i].question # proc[p].question
    /\ \A p \in Procs : proc[p].ret # "raised"

\* both loaded the store before either opened the file for writing
BothLoadedFirst ==
    \A p, q \in Procs : proc[q].opened_at # 0 /\ proc[p].loaded_at < proc[q].opened_at

\* one call returned before the other loaded
NotInterleaved ==
    \E p, q \in Procs : p # q /\ proc[p].done_at # 0 /\ proc[p].done_at < proc[q].loaded_at

Holds(f, question) ==
    \E i \in 1..Len(f.questions) : f.questions[i].question = question

\* C10: two concurrent calls with different new questions on a store that can
\* be read, if both load before either writes, both return True and leave only one of the two
\* questions in the store; two calls one after the other leave both.
C10_LostUpdate ==
    (BothDone /\ DistinctNew) =>
        /\ BothLoadedFirst =>
            /\ \A p \in Procs : proc[p].ret = "True"
            /\ Holds(file, proc[1].question) # Holds(file, proc[2].question)
        /\ NotInterleaved =>
            /\ \A p \in Procs : proc[p].ret = "True"
            /\ Holds(file, proc[1].question) /\ Holds(file, proc[2].question)

\* both calls returned True and the store holds the second question only
C10_Witness ==
    /\ BothDone /\ DistinctNew /\ BothLoadedFirst
    /\ proc[1].ret = "True" /\ proc[2].ret = "True"
    /\ ~Holds(file, proc[1].question)
    /\ Holds(file, proc[2].question)

====
